---- MODULE Spec2Model ----
(***************************************************************************)
(* Kalimba song playback: the look-ahead scheduler of KalimbaPage and the  *)
(* AudioEngine.play entry point it hands notes to.                         *)
(*                                                                         *)
(* Time is counted in ticks of 25 ms of the audio clock (ctx.currentTime): *)
(* 0.1 s = 4, 0.2 s = 8, 1.5 s = 60, 2.0 s = 80.  A note's t is stored in  *)
(* half beats (t2 = 2 * t) and a song's speed in ticks per half beat       *)
(* (0.4 s/beat = 8), so that t * speed = t2 * speed ticks exactly for      *)
(* every note of the compiled-in songs.                                    *)
(***************************************************************************)
EXTENDS Integers, Sequences, FiniteSets, TLC

Null == -1

Max(a, b) == IF a >= b THEN a ELSE b

Min(a, b) == IF a <= b THEN a ELSE b

(* ---- bounds of the exploration ---- *)
\* latest clock reading at which a song is started or idle time passes
MaxStart == 8

\* the clock reading past which the model follows the poll timer no further;
\* no session of a compiled-in song started by MaxStart lasts that long
MaxClock == 1200

\* latest clock reading at which a song is started again right after a session
\* has run to its end
MaxRestart == 284

\* last clock reading of the runs that interleave playback with key presses
\* and visual ticks
Horizon == 160

\* oscillators the violin strings create in one run
MaxViolinVoices == 3

\* audio-clock time between two consecutive scheduler polls: the nominal
\* 200 ms, a jittered 300 ms, a stall of exactly one look-ahead window and
\* a stall of 3.1 s
Gaps == {8, 12, 60, 124}

\* audio-clock time that passes while nothing is playing
IdleSteps == {4}

(* ---- program constants ---- *)
scheduleWindow == 60
PollPeriod == 8
StartOffset == 4
Grace == 80

whiteKeysMidi ==
  {55, 57, 59, 60, 62, 64, 65, 67, 69, 71, 72, 74, 76, 77, 79, 81, 83, 84,
   86, 88, 89, 91, 93, 95}

N(t2, m) == [t2 |-> t2, midi |-> m]

Song0 ==
  [speed |-> 8, instrument |-> "none", notes |-> <<
    N(0,60), N(0,64), N(0,67), N(0,72), N(2,67), N(3,72), N(4,55), N(4,59),
    N(4,62), N(4,71), N(6,62), N(7,59), N(8,57), N(8,60), N(8,64), N(8,69),
    N(10,64), N(11,60), N(12,64), N(12,67), N(12,71), N(12,79), N(14,71), N(15,67),
    N(16,65), N(16,69), N(16,72), N(16,81), N(18,72), N(19,69), N(20,60), N(20,64),
    N(20,67), N(20,76), N(22,67), N(23,64), N(24,65), N(24,69), N(24,72), N(24,81),
    N(26,72), N(27,69), N(28,55), N(28,59), N(28,62), N(28,71), N(30,74), N(31,79),
    N(32,60), N(32,76), N(33,72), N(34,76), N(35,79), N(36,55), N(36,74), N(37,71),
    N(38,74), N(39,71), N(40,57), N(40,72), N(41,69), N(42,72), N(43,76), N(44,64),
    N(44,71), N(45,67), N(46,71), N(47,72), N(48,65), N(48,69), N(49,65), N(50,69),
    N(51,72), N(52,60), N(52,67), N(53,64), N(54,67), N(55,76), N(56,65), N(56,69),
    N(57,72), N(58,81), N(59,84), N(60,55), N(60,71), N(61,74), N(62,79), N(63,83),
    N(64,60), N(64,72), N(64,84), N(65,79), N(66,76), N(67,72), N(68,55), N(68,71),
    N(68,83), N(69,79), N(70,74), N(71,71), N(72,57), N(72,69), N(72,81), N(73,76),
    N(74,72), N(75,69), N(76,64), N(76,67), N(76,79), N(77,76), N(78,71), N(79,67),
    N(80,65), N(80,69), N(80,81), N(81,76), N(82,72), N(83,69), N(84,60), N(84,67),
    N(84,79), N(85,76), N(86,72), N(87,67), N(88,65), N(88,81), N(89,83), N(90,84),
    N(91,86), N(92,55), N(92,83), N(93,81), N(94,79), N(95,74), N(96,60), N(96,64),
    N(96,67), N(96,72), N(96,84), N(98,72), N(100,60) >>]

Song1 ==
  [speed |-> 7, instrument |-> "none", notes |-> <<
    N(0,57), N(2,69), N(2,72), N(2,76), N(4,69), N(4,72), N(4,76), N(6,65),
    N(8,69), N(8,72), N(8,77), N(10,69), N(10,72), N(10,77), N(12,74), N(14,76),
    N(16,77), N(18,62), N(18,81), N(20,65), N(20,69), N(22,65), N(22,69), N(24,64),
    N(24,79), N(26,67), N(26,71), N(28,67), N(28,71) >>]

Song2 ==
  [speed |-> 12, instrument |-> "none", notes |-> <<
    N(0,60), N(0,64), N(0,67), N(0,72), N(2,60), N(2,64), N(2,67), N(2,72),
    N(4,65), N(4,69), N(4,72), N(4,79), N(6,65), N(6,69), N(6,72), N(6,79),
    N(8,69), N(8,72), N(8,76), N(8,81), N(10,69), N(10,72), N(10,76), N(10,81),
    N(12,55), N(12,59), N(12,62), N(12,79), N(16,65), N(16,69), N(16,77), N(18,65),
    N(18,69), N(18,77), N(20,64), N(20,67), N(20,76), N(22,64), N(22,67), N(22,76),
    N(24,62), N(24,67), N(24,74), N(26,62), N(26,67), N(26,74), N(28,60), N(28,64),
    N(28,67), N(28,72) >>]

Song3 ==
  [speed |-> 14, instrument |-> "piano", notes |-> <<
    N(0,57), N(1,64), N(2,69), N(3,72), N(4,64), N(4,57), N(5,67), N(6,69),
    N(6,60), N(8,67), N(9,64), N(9,57), N(10,62), N(11,64), N(13,64), N(13,57),
    N(14,67), N(15,69), N(15,60), N(17,67), N(18,64), N(18,57), N(19,67), N(20,72),
    N(20,65), N(21,69), N(22,67), N(22,60), N(24,72), N(24,65), N(25,72), N(26,69),
    N(27,67), N(27,60), N(28,69), N(29,67), N(30,64), N(30,57), N(32,62), N(32,55),
    N(33,64), N(34,67), N(34,60), N(36,69), N(36,65), N(37,72), N(38,69), N(40,67),
    N(40,60), N(41,64), N(42,62), N(42,55), N(44,60), N(44,57), N(45,62), N(46,64),
    N(48,67), N(48,60), N(49,69), N(50,72), N(50,57), N(52,69), N(53,64), N(54,60),
    N(56,57) >>]

SONGS == <<Song0, Song1, Song2, Song3>>

SongIds == 0 .. Len(SONGS) - 1

\* songs given to the scheduler that hold pitches without a kalimba key
\* (61, 63, 66 and 58 are not in whiteKeysMidi); the first spans two
\* look-ahead windows and ends on such a pitch
ScanSongs ==
  <<[speed |-> 8, instrument |-> "none", notes |-> <<
      N(0,60), N(0,61), N(2,63), N(10,64), N(12,66) >>],
    [speed |-> 12, instrument |-> "piano", notes |-> <<
      N(0,58), N(8,61) >>]>>

ScanIds == Len(SONGS) .. Len(SONGS) + Len(ScanSongs) - 1

\* SONGS[songIndex], with the 0-based index of the code; the songs of
\* ScanSongs follow those of SONGS
SongAt(i) == IF i < Len(SONGS) THEN SONGS[i + 1] ELSE ScanSongs[i - Len(SONGS) + 1]

\* song.notes[i], with the 0-based index of the code
NoteAt(song, i) == song.notes[i + 1]

\* note.t * song.speed
NoteOffset(song, note) == note.t2 * song.speed

\* KALIMBA_KEYS.find(k => k.midi === note.midi) finds a key
FindKey(midi) == midi \in whiteKeysMidi

\* song.instrument || 'kalimba'
Instrument(song) ==
  IF song.instrument = "none" THEN "kalimba" ELSE song.instrument

VARIABLES
  now,            \* audio.ctx.currentTime
  ctx,            \* audio.ctx: "null" or "running"
  songIndex,      \* React state songIndex (Null for null)
  isPlaying,      \* React state isPlaying
  nextNoteIndex,  \* nextNoteIndexRef.current
  startTime,      \* startTimeRef.current
  timerSong,      \* song index captured by the live setInterval closure, or Null
  activeMidi,     \* React state activeMidi (Null for null)
  page,           \* the page that is mounted: "kalimba" or "violin"
  audioCtor,      \* window.AudioContext || window.webkitAudioContext is defined
  made,           \* how many contexts, master gains and reverbs AudioEngine has created
  thrown,         \* "no", or where an exception escaped: "handler" or "effect"
  violin,         \* the ViolinAudio singleton and its strings
  intervals,      \* how many setInterval timers of the scheduler effect are active
  tower,          \* Taipei101 page: React state, the model's stage counter and ref
  drone,          \* drone page: React state and the flight panel
  \* ---- observations of the run (never read by the program) ----
  event,          \* the operation that produced this state
  session,        \* [song, t0, S]: song, clock reading and start time of the latest start
  prevPoll,       \* clock reading of the poll before the latest one (Null: none in this session)
  maxGap,         \* longest gap between two consecutive polls of the session
  log,            \* note indices handed to audio.play in this session, in order
  batch,          \* the audio.play calls of the latest poll
  prior,          \* what the start that produced this state found from the session before
  call            \* the latest direct call of audio.play and what it did

vars == <<now, ctx, songIndex, isPlaying, nextNoteIndex, startTime, timerSong,
          activeMidi, page, audioCtor, made, thrown, violin, intervals, tower,
          drone, event, session, prevPoll, maxGap, log, batch, prior, call>>

\* what the song playback of KalimbaPage never touches
offPage == <<page, audioCtor, violin, call, tower, drone>>

\* the state of the two pages without sound
scenes == <<tower, drone>>

(* ---- AudioEngine ---- *)

CreatedUnlessRunning(c, ctor) == c # "running" /\ ctor

\* if (!this.ctx) { ...; if (!AudioContext) return; this.ctx = new AudioContext(); ... }
Created(c, ctor) == c = "null" /\ ctor

\* AudioEngine.ensureInit: the state of the context after the call; a
\* suspended context is resumed
ensureInit(c, ctor) ==
  IF c = "null"
  THEN IF Created(c, ctor) THEN "running" ELSE "null"
  ELSE "running"

\* the nodes ensureInit has created so far, after one more call
ensureInitMade(c, ctor, m) ==
  IF Created(c, ctor)
  THEN [ctx |-> m.ctx + 1, masterGain |-> m.masterGain + 1, reverb |-> m.reverb + 1]
  ELSE m

PlayStartNow(ctxNow, when) == ctxNow

\* const t = Math.max(this.ctx.currentTime, when)
PlayStart(ctxNow, when) == Max(ctxNow, when)

\* AudioEngine.play: the voice that playKalimba / playPiano builds
play(midi, factor, instrument, when, ctxNow) ==
  [midi |-> midi, factor |-> factor, instrument |-> instrument,
   when |-> when, t |-> PlayStart(ctxNow, when)]

(* ---- numbers that may be NaN or infinite ---- *)

Fin(n) == [fin |-> TRUE, v |-> n]
NaN == [fin |-> FALSE, v |-> 0]
PosInf == [fin |-> FALSE, v |-> 1]
NegInf == [fin |-> FALSE, v |-> -1]

\* Number.isFinite
IsFinite(x) == x.fin

\* Math.max of two numbers
MathMax(a, b) ==
  IF a = NaN \/ b = NaN THEN NaN
  ELSE IF a = PosInf \/ b = PosInf THEN PosInf
  ELSE IF a = NegInf THEN b
  ELSE IF b = NegInf THEN a
  ELSE Fin(Max(a.v, b.v))

(* ---- AudioEngine.play called directly ---- *)

\* one tick of the audio clock, in milliseconds
TickMs == 25

DecayTimeNoFloor(freq) == 500000 \div freq

\* const decayTime = Math.max(1.0, 500 / freq), in milliseconds
DecayTime(freq) == Max(1000, 500000 \div freq)

\* osc.start(t); osc.stop(t + after): both in milliseconds
Osc(name, t, after) == [name |-> name, start |-> TickMs * t, stop |-> TickMs * t + after]

\* the oscillators of a kalimba voice: carrier and modulator stop at
\* t + decayTime + 0.1, thump at t + 0.06
KalimbaOscs(freq, t) ==
  <<Osc("carrier", t, DecayTime(freq) + 100),
    Osc("modulator", t, DecayTime(freq) + 100),
    Osc("thump", t, 60)>>

\* the oscillators of a piano voice: both stop at t + 3.0
PianoOscs(t) == <<Osc("osc1", t, 3000), Osc("osc2", t, 3000)>>

NoVoice == [instrument |-> "none", freq |-> 0, factor |-> 0, t |-> 0, oscs |-> <<>>]

NoCall ==
  [freq |-> Fin(0), factor |-> Fin(0), instrument |-> "none", when |-> Fin(0),
   nodes |-> 0, thrown |-> FALSE, voice |-> NoVoice]

\* playKalimba: carrier, modulator and modGain are created, then
\* modGain.gain.setValueAtTime(brightness, t) raises a TypeError for a
\* non-finite t; otherwise env, thump and thumpGain follow
playKalimba(freq, factor, t) ==
  IF IsFinite(t)
  THEN [nodes |-> 6, thrown |-> FALSE,
        voice |-> [instrument |-> "kalimba", freq |-> freq.v, factor |-> factor.v, t |-> t.v,
                   oscs |-> KalimbaOscs(freq.v, t.v)]]
  ELSE [nodes |-> 3, thrown |-> TRUE, voice |-> NoVoice]

\* playPiano: osc1, osc2 and filter are created, then
\* filter.frequency.setValueAtTime(freq * 8, t) raises a TypeError for a
\* non-finite t; otherwise gain follows
playPiano(freq, factor, t) ==
  IF IsFinite(t)
  THEN [nodes |-> 4, thrown |-> FALSE,
        voice |-> [instrument |-> "piano", freq |-> freq.v, factor |-> factor.v, t |-> t.v,
                   oscs |-> PianoOscs(t.v)]]
  ELSE [nodes |-> 3, thrown |-> TRUE, voice |-> NoVoice]

PlayGuardFreqOnly(freq, factor) == IsFinite(freq)

\* if (!Number.isFinite(freq) || !Number.isFinite(positionFactor)) return
PlayGuard(freq, factor) == IsFinite(freq) /\ IsFinite(factor)

\* AudioEngine.play(freq, positionFactor, instrument, when) on an engine whose
\* context is c, at clock reading ctxNow
AudioEnginePlay(c, ctor, ctxNow, freq, factor, instrument, when) ==
  IF ~PlayGuard(freq, factor)
  THEN [ctx |-> c, created |-> FALSE, nodes |-> 0, thrown |-> FALSE, voice |-> NoVoice]
  ELSE IF ensureInit(c, ctor) = "null"
  THEN [ctx |-> "null", created |-> FALSE, nodes |-> 0, thrown |-> FALSE, voice |-> NoVoice]
  ELSE LET t == MathMax(Fin(ctxNow), when)
           r == IF instrument = "piano"
                THEN playPiano(freq, factor, t)
                ELSE playKalimba(freq, factor, t)
       IN [ctx |-> ensureInit(c, ctor), created |-> Created(c, ctor),
           nodes |-> r.nodes, thrown |-> r.thrown, voice |-> r.voice]

(* ---- ViolinAudio and ViolinString ---- *)

\* Object.keys(this.strings), in insertion order
StringNames == <<"G", "D", "A", "E">>

StringSet == {StringNames[k] : k \in 1 .. Len(StringNames)}

\* a string with no voice: osc, gain and filter are null
Silent == [osc |-> Null, gain |-> Null, filter |-> Null]

\* violinAudio after construction: no context, strings = {}; bowVelocity is
\* the React state of ViolinPage, in hundredths
ViolinInit ==
  [ctx |-> "null",
   made |-> [ctx |-> 0, masterGain |-> 0, reverb |-> 0, strings |-> 0],
   strings |-> [s \in StringSet |-> Silent],
   voices |-> <<>>,
   timers |-> <<>>,
   last |-> [string |-> "none", velocity |-> 0, fingerPos |-> 0],
   bowVelocity |-> 0,
   thrown |-> FALSE]

\* new AudioContext() with AudioContext undefined raises a TypeError
InitThrows(v, ctor) == v.ctx = "null" /\ ~ctor

\* ViolinAudio.init
ViolinAudioInit(v, ctor) ==
  IF v.ctx # "null" THEN v
  ELSE IF InitThrows(v, ctor) THEN [v EXCEPT !.thrown = TRUE]
  ELSE [v EXCEPT !.ctx = "running",
                 !.made = [ctx |-> v.made.ctx + 1,
                           masterGain |-> v.made.masterGain + 1,
                           reverb |-> v.made.reverb + 1,
                           strings |-> v.made.strings + Len(StringNames)]]

\* const targetFreq = this.baseFreq * Math.pow(2, (fingerPos * 12) / 12)
TargetFreq(s, fingerPos) == [base |-> s, fingerPos |-> fingerPos]

\* Math.min(1, velocity * 1.5), in hundredths
TargetVol(velocity) == IF (velocity * 3) \div 2 >= 100 THEN 100 ELSE (velocity * 3) \div 2

\* 800 + velocity * 4000
Cutoff(velocity) == 800 + velocity * 40

\* if (this.osc && this.gain && this.filter)
Sounding(st) == st.osc # Null /\ st.gain # Null /\ st.filter # Null

StringPlayAlwaysNew(v, s, velocity, fingerPos) ==
  LET id == Len(v.voices) + 1
  IN [v EXCEPT !.voices = Append(@, [string |-> s, freq |-> TargetFreq(s, fingerPos),
                                     vol |-> velocity, cutoff |-> 1000,
                                     started |-> TRUE, released |-> FALSE,
                                     stopped |-> FALSE, disconnected |-> FALSE]),
               !.strings[s] = [osc |-> id, gain |-> id, filter |-> id]]

\* ViolinString.play: a sounding voice is re-targeted, otherwise an
\* oscillator, a filter and a gain are created and the oscillator started
StringPlay(v, s, velocity, fingerPos) ==
  LET st == v.strings[s]
  IN IF Sounding(st)
     THEN [v EXCEPT !.voices[st.osc].freq = TargetFreq(s, fingerPos),
                    !.voices[st.gain].vol = TargetVol(velocity),
                    !.voices[st.filter].cutoff = Cutoff(velocity)]
     ELSE LET id == Len(v.voices) + 1
          IN [v EXCEPT !.voices = Append(@, [string |-> s, freq |-> TargetFreq(s, fingerPos),
                                             vol |-> velocity, cutoff |-> 1000,
                                             started |-> TRUE, released |-> FALSE,
                                             stopped |-> FALSE, disconnected |-> FALSE]),
                       !.strings[s] = [osc |-> id, gain |-> id, filter |-> id]]

StringStopUnguarded(v, s) ==
  LET st == v.strings[s]
  IN [v EXCEPT !.timers = Append(@, [osc |-> st.osc, gain |-> st.gain]),
               !.strings[s] = Silent]

\* ViolinString.stop: the gain is ramped to 0, a teardown of the old
\* oscillator and gain is set for 200 ms later, and the fields are cleared
StringStop(v, s) ==
  LET st == v.strings[s]
  IN IF st.gain # Null
     THEN [v EXCEPT !.voices[st.gain].vol = 0,
                    !.voices[st.gain].released = TRUE,
                    !.timers = Append(@, [osc |-> st.osc, gain |-> st.gain]),
                    !.strings[s] = Silent]
     ELSE v

\* strings.forEach(k => stop()), over the names in names from position k on
RECURSIVE StopEach(_, _, _)
StopEach(v, names, k) ==
  IF k > Len(names) THEN v
  ELSE StopEach(StringStop(v, names[k]), names, k + 1)

OthersNone(s) == <<>>

\* the names of the strings other than s, in order
Others(s) == SelectSeq(StringNames, LAMBDA k : k # s)

\* the strings that exist: none before init
Strung(v) == IF v.made.strings = 0 THEN <<>> ELSE StringNames

\* ViolinAudio.bow(stringName, velocity, fingerPos)
ViolinBow(v, ctor, s, velocity, fingerPos) ==
  LET v1 == ViolinAudioInit(v, ctor)
  IN IF InitThrows(v, ctor) \/ v1.ctx = "null"
     THEN v1
     ELSE LET v2 == [v1 EXCEPT !.ctx = "running",
                               !.last = [string |-> s, velocity |-> velocity,
                                         fingerPos |-> fingerPos]]
          IN StringPlay(StopEach(v2, Others(s), 1), s, velocity, fingerPos)

\* ViolinAudio.stopAll
ViolinStopAll(v) == StopEach(v, Strung(v), 1)

TeardownCurrent(v) ==
  LET tm == Head(v.timers)
      cur == v.strings[v.voices[tm.osc].string]
      vs1 == IF cur.osc # Null THEN [v.voices EXCEPT ![cur.osc].stopped = TRUE] ELSE v.voices
      vs2 == IF cur.gain # Null THEN [vs1 EXCEPT ![cur.gain].disconnected = TRUE] ELSE vs1
  IN [v EXCEPT !.voices = vs2, !.timers = Tail(@)]

\* the setTimeout callback of stop: if (oldOsc) oldOsc.stop(); if (oldGain) oldGain.disconnect()
Teardown(v) ==
  LET tm == Head(v.timers)
      vs1 == IF tm.osc # Null THEN [v.voices EXCEPT ![tm.osc].stopped = TRUE] ELSE v.voices
      vs2 == IF tm.gain # Null THEN [vs1 EXCEPT ![tm.gain].disconnected = TRUE] ELSE vs1
  IN [v EXCEPT !.voices = vs2, !.timers = Tail(@)]

(* ---- Audio Scheduler effect ---- *)

EffectStartTimeNoOffset(ctxNow) == ctxNow

EffectStartIndexKept(idx) == idx

\* nextNoteIndexRef.current = 0
EffectStartIndex(idx) == 0

\* startTimeRef.current = audio.ctx!.currentTime + 0.1
EffectStartTime(ctxNow) == ctxNow + StartOffset

\* const noteTime = startTimeRef.current + (note.t * song.speed)
NoteTime(song, note, start) == start + NoteOffset(song, note)

InWindowNoLookAhead(noteTime, currentTime) == noteTime < currentTime

InWindowInclusive(noteTime, currentTime) == noteTime <= currentTime + scheduleWindow

\* if (noteTime < currentTime + scheduleWindow)
InWindow(noteTime, currentTime) == noteTime < currentTime + scheduleWindow

HandOffAtPollTime(song, idx, noteTime, currentTime) ==
  [i |-> idx, at |-> currentTime,
   voice |-> play(NoteAt(song, idx).midi, 8, Instrument(song), currentTime, currentTime)]

\* audio.play(key.freq, 0.8, song.instrument || 'kalimba', noteTime)
HandOff(song, idx, noteTime, currentTime) ==
  [i |-> idx, at |-> currentTime,
   voice |-> play(NoteAt(song, idx).midi, 8, Instrument(song), noteTime, currentTime)]

SchedulerLoopOneNote(song, idx, start, currentTime, calls) ==
  IF idx < Len(song.notes) /\ InWindow(NoteTime(song, NoteAt(song, idx), start), currentTime)
  THEN [idx |-> idx + 1,
        calls |-> IF FindKey(NoteAt(song, idx).midi)
                  THEN Append(calls, HandOff(song, idx, NoteTime(song, NoteAt(song, idx), start), currentTime))
                  ELSE calls]
  ELSE [idx |-> idx, calls |-> calls]

RECURSIVE SchedulerLoopStalls(_, _, _, _, _)
SchedulerLoopStalls(song, idx, start, currentTime, calls) ==
  IF idx < Len(song.notes)
     /\ InWindow(NoteTime(song, NoteAt(song, idx), start), currentTime)
     /\ FindKey(NoteAt(song, idx).midi)
  THEN SchedulerLoopStalls(song, idx + 1, start, currentTime,
         Append(calls, HandOff(song, idx, NoteTime(song, NoteAt(song, idx), start), currentTime)))
  ELSE [idx |-> idx, calls |-> calls]

\* the while loop of scheduler: returns the scan pointer and the calls made
RECURSIVE SchedulerLoop(_, _, _, _, _)
SchedulerLoop(song, idx, start, currentTime, calls) ==
  IF idx < Len(song.notes)
  THEN LET note == NoteAt(song, idx)
           noteTime == NoteTime(song, note, start)
       IN IF InWindow(noteTime, currentTime)
          THEN SchedulerLoop(song, idx + 1, start, currentTime,
                 IF FindKey(note.midi)
                 THEN Append(calls, HandOff(song, idx, noteTime, currentTime))
                 ELSE calls)
          ELSE [idx |-> idx, calls |-> calls]
  ELSE [idx |-> idx, calls |-> calls]

\* const endTime = startTimeRef.current + (lastNote.t * song.speed)
EndTime(song, start) == start + NoteOffset(song, NoteAt(song, Len(song.notes) - 1))

FinishedNoGrace(song, idx, start, currentTime) ==
  currentTime > EndTime(song, start) /\ idx >= Len(song.notes)

FinishedEarly(song, idx, start, currentTime) ==
  currentTime > EndTime(song, start) - Grace

FinishedNever(song, idx, start, currentTime) ==
  currentTime > EndTime(song, start) + Grace /\ idx > Len(song.notes)

\* if (currentTime > endTime + 2.0 && nextNoteIndexRef.current >= song.notes.length)
Finished(song, idx, start, currentTime) ==
  currentTime > EndTime(song, start) + Grace /\ idx >= Len(song.notes)

schedulerPointerBehind(song, idx, start, currentTime) ==
  LET r == SchedulerLoop(song, idx, start, currentTime, <<>>)
  IN [idx |-> IF r.idx > idx THEN r.idx - 1 ELSE r.idx, calls |-> r.calls,
      reset |-> Finished(song, r.idx, start, currentTime)]

\* one run of scheduler(): the new scan pointer, the calls, and whether it
\* resets the playback state
scheduler(song, idx, start, currentTime) ==
  LET r == SchedulerLoop(song, idx, start, currentTime, <<>>)
  IN [idx |-> r.idx, calls |-> r.calls,
      reset |-> Finished(song, r.idx, start, currentTime)]

Indices(calls) == [k \in 1 .. Len(calls) |-> calls[k].i]

\* no start produced this state
EffectCleanupKeeps(n) == n

\* return () => clearInterval(timerId): the cleanup of the previous run of
\* the effect clears the interval that run had set, if it had set one
EffectCleanup(n) == IF n > 0 THEN n - 1 ELSE 0

\* Taipei101Page and Taipei101Model after mounting; signals, frame and
\* next and offFrames observe the run: setCompleted(true) calls since assembly
\* was switched on, what the latest frame called on setCompleted, the counter
\* value it computed, frames since assembly was switched off (counted to 2)
TowerInit ==
  [assemble |-> FALSE, completed |-> FALSE, progress |-> 0,
   currentStage |-> 0, isCompletedRef |-> FALSE,
   signals |-> 0, frame |-> "none", next |-> 0, offFrames |-> 0]

\* App after mounting: the flight panel is not rendered
DroneInit ==
  [assemble |-> FALSE, flightMode |-> "idle", panel |-> "hidden", progress |-> 0]

NoPrior == [how |-> "none", idx |-> 0, S |-> 0]

\* the session a start replaces: how it ended and the refs it left behind
Prior ==
  [how |-> IF session.song = Null THEN "fresh"
           ELSE IF isPlaying THEN "replaced"
           ELSE IF event = "stop" THEN "stopped"
           ELSE IF event = "finish" THEN "finished"
           ELSE "ended",
   idx |-> nextNoteIndex, S |-> startTime]

InitPage ==
  /\ now = 0
  /\ ctx = "null"
  /\ songIndex = Null
  /\ isPlaying = FALSE
  /\ nextNoteIndex = 0
  /\ startTime = 0
  /\ timerSong = Null
  /\ intervals = 0
  /\ tower = TowerInit
  /\ drone = DroneInit
  /\ event = "init"
  /\ session = [song |-> Null, t0 |-> 0, S |-> 0]
  /\ prevPoll = Null
  /\ maxGap = 0
  /\ log = <<>>
  /\ batch = <<>>
  /\ activeMidi = Null
  /\ made = [ctx |-> 0, masterGain |-> 0, reverb |-> 0]
  /\ thrown = "no"
  /\ violin = ViolinInit
  /\ prior = NoPrior
  /\ call = NoCall

\* KalimbaPage is mounted in a browser that has an AudioContext
Init ==
  /\ InitPage
  /\ page = "kalimba"
  /\ audioCtor = TRUE

AlreadyPlayingIgnored(idx) == FALSE

\* setSongIndex(idx) and setIsPlaying(true) both set the value the state
\* already has
AlreadyPlaying(idx) == songIndex = idx /\ isPlaying

\* handleStartSong(idx), the re-render it causes and the Audio Scheduler
\* effect that then runs: cleanup of the previous interval, reset of the
\* refs, setInterval and the immediate scheduler() call
StartSong(idx) ==
  /\ page = "kalimba"
  /\ thrown # "effect"
  /\ now <= MaxStart \/ (event = "finish" /\ now <= MaxRestart)
  /\ ctx' = ensureInit(ctx, audioCtor)
  /\ made' = ensureInitMade(ctx, audioCtor, made)
  /\ UNCHANGED <<now, activeMidi, offPage>>
  /\ IF AlreadyPlaying(idx)
     THEN \* both setters keep the state: no render, the effect does not re-run
          /\ event' = "startSame"
          /\ prior' = NoPrior
          /\ UNCHANGED <<songIndex, isPlaying, nextNoteIndex, startTime, thrown,
                         timerSong, session, prevPoll, maxGap, log, batch, intervals>>
     ELSE IF ctx' = "null"
     THEN \* the cleanup of the previous run clears its interval, then
          \* audio.ctx!.currentTime reads a property of null
          /\ songIndex' = idx
          /\ isPlaying' = TRUE
          /\ nextNoteIndex' = EffectStartIndex(nextNoteIndex)
          /\ timerSong' = Null
          /\ intervals' = EffectCleanup(intervals)
          /\ thrown' = "effect"
          /\ event' = "startThrow"
          /\ prior' = NoPrior
          /\ UNCHANGED <<startTime, session, prevPoll, maxGap, log, batch>>
     ELSE LET song == SongAt(idx)
              start == EffectStartTime(now)
              r == scheduler(song, EffectStartIndex(nextNoteIndex), start, now)
          IN /\ startTime' = start
             /\ nextNoteIndex' = r.idx
             /\ songIndex' = IF r.reset THEN Null ELSE idx
             /\ isPlaying' = ~r.reset
             /\ timerSong' = IF r.reset THEN Null ELSE idx
             /\ intervals' = IF r.reset
                             THEN EffectCleanup(EffectCleanup(intervals) + 1)
                             ELSE EffectCleanup(intervals) + 1
             /\ event' = "start"
             /\ session' = [song |-> idx, t0 |-> now, S |-> start]
             /\ prevPoll' = Null
             /\ maxGap' = 0
             /\ log' = Indices(r.calls)
             /\ batch' = r.calls
             /\ prior' = Prior
             /\ UNCHANGED thrown

\* the setInterval callback runs, gap ticks of the audio clock after the
\* previous run of scheduler
Poll(gap) ==
  /\ timerSong # Null
  /\ now + gap <= MaxClock
  /\ now' = now + gap
  /\ prior' = NoPrior
  /\ UNCHANGED <<made, thrown, offPage>>
  /\ IF ctx = "null"
     THEN \* if (!audio.ctx) return
          /\ event' = "poll"
          /\ UNCHANGED <<ctx, songIndex, isPlaying, nextNoteIndex, startTime, activeMidi,
                         timerSong, session, prevPoll, maxGap, log, batch, intervals>>
     ELSE LET song == SongAt(timerSong)
              r == scheduler(song, nextNoteIndex, startTime, now')
          IN /\ nextNoteIndex' = r.idx
             /\ songIndex' = IF r.reset THEN Null ELSE songIndex
             /\ isPlaying' = IF r.reset THEN FALSE ELSE isPlaying
             /\ timerSong' = IF r.reset THEN Null ELSE timerSong
             /\ intervals' = IF r.reset THEN EffectCleanup(intervals) ELSE intervals
             \* the Visual Sync effect re-runs: if (activeMidi !== null) setActiveMidi(null)
             /\ activeMidi' = IF r.reset THEN Null ELSE activeMidi
             /\ event' = IF r.reset THEN "finish" ELSE "poll"
             /\ prevPoll' = now
             /\ maxGap' = Max(maxGap, gap)
             /\ log' = log \o Indices(r.calls)
             /\ batch' = r.calls
             /\ UNCHANGED <<ctx, startTime, session>>

StopSongKeepsTimer ==
  /\ isPlaying
  /\ thrown # "effect"
  /\ isPlaying' = FALSE
  /\ songIndex' = Null
  /\ activeMidi' = Null
  /\ event' = "stop"
  /\ prior' = NoPrior
  /\ UNCHANGED <<now, ctx, nextNoteIndex, startTime, timerSong, session, prevPoll,
                 maxGap, log, batch, made, thrown, offPage, intervals>>

\* handleStopSong (the stop button is rendered only while isPlaying) and the
\* cleanup of the effect: clearInterval(timerId)
StopSong ==
  /\ isPlaying
  /\ thrown # "effect"
  /\ isPlaying' = FALSE
  /\ songIndex' = Null
  /\ activeMidi' = Null
  /\ timerSong' = Null
  /\ intervals' = EffectCleanup(intervals)
  /\ event' = "stop"
  /\ prior' = NoPrior
  /\ UNCHANGED <<now, ctx, nextNoteIndex, startTime, session, prevPoll,
                 maxGap, log, batch, made, thrown, offPage>>

\* the audio clock runs on while nothing is playing
Idle(d) ==
  /\ page = "kalimba"
  /\ ~isPlaying
  /\ ctx = "running"
  /\ now + d <= MaxStart
  /\ now' = now + d
  /\ event' = "idle"
  /\ prior' = NoPrior
  /\ UNCHANGED <<ctx, songIndex, isPlaying, nextNoteIndex, startTime, activeMidi,
                 timerSong, session, prevPoll, maxGap, log, batch, made, thrown,
                 offPage, intervals>>

Next ==
  \/ \E idx \in SongIds : StartSong(idx)
  \/ \E gap \in Gaps : Poll(gap)
  \/ StopSong
  \/ \E d \in IdleSteps : Idle(d)

Spec == Init /\ [][Next]_vars

TypeOK ==
  /\ now \in Nat
  /\ songIndex \in SongIds \cup {Null}
  /\ isPlaying \in BOOLEAN
  /\ nextNoteIndex \in Nat
  /\ timerSong \in SongIds \cup {Null}

LiveSpec == Init /\ [][Next]_vars /\ WF_vars(\E gap \in Gaps : Poll(gap))

(* ---- AudioEngine used outside song playback ---- *)

\* arguments of a direct call of audio.play: 250 Hz and 1000 Hz, velocity 0.8
\* (in tenths)
Freqs == {Fin(250), Fin(1000), NaN, PosInf}
Factors == {Fin(8), NaN, NegInf}
Whens == {Fin(0), Fin(6), NaN, PosInf, NegInf}

\* audio.play(freq, positionFactor, instrument, when)
PlayCall(freq, factor, instrument, when) ==
  /\ page = "kalimba"
  /\ thrown # "effect"
  /\ LET r == AudioEnginePlay(ctx, audioCtor, now, freq, factor, instrument, when)
     IN /\ ctx' = r.ctx
        /\ made' = IF r.created THEN ensureInitMade(ctx, audioCtor, made) ELSE made
        /\ thrown' = IF r.thrown THEN "handler" ELSE thrown
        /\ call' = [freq |-> freq, factor |-> factor, instrument |-> instrument,
                    when |-> when, nodes |-> r.nodes, thrown |-> r.thrown,
                    voice |-> r.voice]
  /\ event' = "play"
  /\ prior' = NoPrior
  /\ UNCHANGED <<now, songIndex, isPlaying, nextNoteIndex, startTime, timerSong,
                 activeMidi, page, audioCtor, violin, scenes, intervals, session,
                 prevPoll, maxGap, log, batch>>

\* audio.ensureInit() on its own, as handlePlayKey and handleKeyDown call it
EnsureInitCall ==
  /\ page = "kalimba"
  /\ thrown # "effect"
  /\ ctx' = ensureInit(ctx, audioCtor)
  /\ made' = ensureInitMade(ctx, audioCtor, made)
  /\ event' = IF ctx = "suspended" THEN "ensureInitResume" ELSE "ensureInit"
  /\ prior' = NoPrior
  /\ UNCHANGED <<now, songIndex, isPlaying, nextNoteIndex, startTime, timerSong,
                 activeMidi, thrown, session, prevPoll, maxGap, log, batch,
                 offPage, intervals>>

\* the browser suspends the running context
Suspend ==
  /\ page = "kalimba"
  /\ ctx = "running"
  /\ ctx' = "suspended"
  /\ event' = "suspend"
  /\ prior' = NoPrior
  /\ UNCHANGED <<now, songIndex, isPlaying, nextNoteIndex, startTime, timerSong,
                 activeMidi, made, thrown, session, prevPoll, maxGap, log, batch,
                 offPage, intervals>>

(* ---- ViolinPage ---- *)

\* bow velocity and finger position, in hundredths
Velocities == {0, 100}
FingerPositions == {0, 25}

\* the strings the mouse bows
Bowed == {"G", "D"}

kalimbaVars == <<now, ctx, songIndex, isPlaying, nextNoteIndex, startTime,
                 timerSong, activeMidi, made, thrown, intervals, session, prevPoll,
                 maxGap, log, batch, call>>

\* handleMouseMove: violinAudio.bow(currentString, speed or 0, fingerPos)
Bow(s, velocity, fingerPos) ==
  /\ page = "violin"
  /\ Sounding(violin.strings[s]) \/ Len(violin.voices) < MaxViolinVoices
  /\ violin' = IF InitThrows(violin, audioCtor)
               THEN ViolinBow(violin, audioCtor, s, velocity, fingerPos)
               ELSE \* setBowVelocity(speed): the speeds moved at are 0 and 1
                    [ViolinBow(violin, audioCtor, s, velocity, fingerPos)
                       EXCEPT !.bowVelocity = velocity]
  /\ event' = IF InitThrows(violin, audioCtor) THEN "bowThrow"
              ELSE IF Sounding(violin.strings[s]) THEN "bowLegato"
              ELSE "bow"
  /\ prior' = NoPrior
  /\ UNCHANGED <<kalimbaVars, page, audioCtor, scenes>>

\* onMouseLeave: violinAudio.stopAll(); setBowVelocity(0)
StopAll ==
  /\ page = "violin"
  /\ violin' = [ViolinStopAll(violin) EXCEPT !.bowVelocity = 0]
  /\ event' = IF event \in {"stopAll", "stopAllAgain"} THEN "stopAllAgain" ELSE "stopAll"
  /\ prior' = NoPrior
  /\ UNCHANGED <<kalimbaVars, page, audioCtor, scenes>>

\* the oldest pending teardown timer of a stopped string fires
Timeout ==
  /\ page = "violin"
  /\ violin.timers # <<>>
  /\ violin' = Teardown(violin)
  /\ event' = "timeout"
  /\ prior' = NoPrior
  /\ UNCHANGED <<kalimbaVars, page, audioCtor, scenes>>

\* either page is mounted, in a browser with or without an AudioContext
EngineInit ==
  /\ InitPage
  /\ page \in {"kalimba", "violin"}
  /\ audioCtor \in BOOLEAN

EngineNext ==
  \/ \E freq \in Freqs, factor \in Factors, instrument \in {"kalimba", "piano"},
        when \in Whens : PlayCall(freq, factor, instrument, when)
  \/ EnsureInitCall
  \/ Suspend
  \/ \E d \in IdleSteps : Idle(d)
  \/ \E s \in Bowed, velocity \in Velocities, fingerPos \in FingerPositions :
        Bow(s, velocity, fingerPos)
  \/ StopAll
  \/ Timeout

EngineSpec == EngineInit /\ [][EngineNext]_vars

(* ---- Taipei101 page ---- *)

\* the stage counter is kept in hundredths of a stage
StageUnit == 100

\* Math.max(...bricks.map(b => b.stage)): three base layers, eight
\* segments, two top layers and the spire are stages 0 .. 13
maxStage == 13 * StageUnit

\* frame deltas, in units of 40 ms: 40 ms and 400 ms
TowerDeltas == {1, 10}

\* delta * 2.5
Grow(delta) == delta * 10

\* delta * 8
Shrink(delta) == delta * 32

\* Math.floor(Math.min((next / maxStage) * 100, 100))
ProgressOf(next) == Min((next * 100) \div maxStage, 100)

FrameAssembleNoRef(t, delta) ==
  LET next == t.currentStage + Grow(delta)
      t1 == [t EXCEPT !.progress = ProgressOf(next), !.next = next, !.frame = "none"]
  IN IF next > maxStage + StageUnit
     THEN [t1 EXCEPT !.completed = TRUE, !.isCompletedRef = TRUE,
                     !.signals = Min(@ + 1, 2), !.frame = "signal",
                     !.currentStage = maxStage + (3 * StageUnit) \div 2]
     ELSE [t1 EXCEPT !.currentStage = next]

\* useFrame while assemble: the counter grows, onProgress gets the
\* percentage, and past maxStage + 1 setCompleted(true) is called unless
\* isCompletedRef is set; the counter is then put to maxStage + 1.5
FrameAssemble(t, delta) ==
  LET next == t.currentStage + Grow(delta)
      t1 == [t EXCEPT !.progress = ProgressOf(next), !.next = next, !.frame = "none"]
  IN IF next > maxStage + StageUnit
     THEN IF ~t.isCompletedRef
          THEN [t1 EXCEPT !.completed = TRUE, !.isCompletedRef = TRUE,
                          !.signals = Min(@ + 1, 2), !.frame = "signal",
                          !.currentStage = maxStage + (3 * StageUnit) \div 2]
          ELSE [t1 EXCEPT !.currentStage = maxStage + (3 * StageUnit) \div 2]
     ELSE [t1 EXCEPT !.currentStage = next]

\* useFrame while not assemble: the counter shrinks down to -1, onProgress(0)
\* once it is at or below 0, and setCompleted(false) if isCompletedRef is set
FrameDisassemble(t, delta) ==
  LET next == Max(t.currentStage - Shrink(delta), 0 - StageUnit)
      t1 == [t EXCEPT !.progress = IF next <= 0 THEN 0 ELSE @,
                      !.currentStage = next, !.next = next, !.frame = "none",
                      !.offFrames = Min(@ + 1, 2)]
  IN IF t.isCompletedRef
     THEN [t1 EXCEPT !.completed = FALSE, !.isCompletedRef = FALSE, !.frame = "withdraw"]
     ELSE t1

soundVars == <<now, ctx, songIndex, isPlaying, nextNoteIndex, startTime,
               timerSong, activeMidi, made, thrown, intervals, session, prevPoll,
               maxGap, log, batch, call, prior, violin, audioCtor>>

\* one frame of Taipei101Model
TowerFrame(delta) ==
  /\ page = "tower"
  /\ tower' = IF tower.assemble THEN FrameAssemble(tower, delta)
              ELSE FrameDisassemble(tower, delta)
  /\ event' = "towerFrame"
  /\ UNCHANGED <<soundVars, page, drone>>

\* onClick={() => setAssemble(!assemble)}
TowerToggle ==
  /\ page = "tower"
  /\ tower' = [tower EXCEPT !.assemble = ~@,
                            !.signals = IF tower.assemble THEN @ ELSE 0,
                            !.offFrames = 0]
  /\ event' = "towerToggle"
  /\ UNCHANGED <<soundVars, page, drone>>

TowerPageInit == InitPage /\ page = "tower" /\ audioCtor = TRUE

TowerNext ==
  \/ \E delta \in TowerDeltas : TowerFrame(delta)
  \/ TowerToggle

TowerSpec == TowerPageInit /\ [][TowerNext]_vars

(* ---- drone page ---- *)

\* the ids of the buttons of the flight panel
FlightModes == {"idle", "circle", "figure8", "spiral", "flip"}

\* frame deltas, in units of 40 ms: 40 ms and 400 ms
DroneDeltas == {1, 10}

\* Drone useFrame: setProgress(p => Math.min(p + delta * 0.3, 1.5)) while
\* assemble, setProgress(p => Math.max(p - delta * 0.8, 0)) otherwise; in
\* thousandths
DroneProgress(p, assemble, delta) ==
  IF assemble THEN Min(p + delta * 12, 1500) ELSE Max(p - delta * 32, 0)

\* {assemble && (<motion.div exit=...>)} inside AnimatePresence: the panel is
\* rendered while assemble, and when assemble turns false it stays mounted,
\* with its buttons, until its exit animation has run
PanelAfter(panel, assemble) ==
  IF assemble THEN "shown"
  ELSE IF panel = "hidden" THEN "hidden"
  ELSE "exiting"

\* handleAssembleToggle
DroneToggle ==
  /\ page = "drone"
  /\ drone' = [drone EXCEPT !.flightMode = IF drone.assemble THEN "idle" ELSE @,
                            !.assemble = ~@,
                            !.panel = PanelAfter(@, ~drone.assemble)]
  /\ event' = "droneToggle"
  /\ UNCHANGED <<soundVars, page, tower>>

\* onClick={() => setFlightMode(mode.id)} of a button of the panel
SelectMode(mode) ==
  /\ page = "drone"
  /\ drone.panel # "hidden"
  /\ drone' = [drone EXCEPT !.flightMode = mode]
  /\ event' = "selectMode"
  /\ UNCHANGED <<soundVars, page, tower>>

\* the exit animation of the panel ends and AnimatePresence unmounts it
PanelExit ==
  /\ page = "drone"
  /\ drone.panel = "exiting"
  /\ drone' = [drone EXCEPT !.panel = "hidden"]
  /\ event' = "panelExit"
  /\ UNCHANGED <<soundVars, page, tower>>

\* one frame of Drone
DroneFrame(delta) ==
  /\ page = "drone"
  /\ drone' = [drone EXCEPT !.progress = DroneProgress(@, drone.assemble, delta)]
  /\ event' = "droneFrame"
  /\ UNCHANGED <<soundVars, page, tower>>

DroneInitPage == InitPage /\ page = "drone" /\ audioCtor = TRUE

DroneNext ==
  \/ DroneToggle
  \/ \E mode \in FlightModes : SelectMode(mode)
  \/ PanelExit
  \/ \E delta \in DroneDeltas : DroneFrame(delta)

DroneSpec == DroneInitPage /\ [][DroneNext]_vars

(* ---- the pages with a meter ---- *)

\* width: Math.min(bowVelocity * 100, 100) percent
MeterWidth(bowVelocity) == Min(bowVelocity, 100)

MeterInit == InitPage /\ page \in {"tower", "violin"} /\ audioCtor = TRUE

MeterNext ==
  \/ TowerNext
  \/ \E s \in Bowed, velocity \in Velocities, fingerPos \in FingerPositions :
        Bow(s, velocity, fingerPos)
  \/ StopAll
  \/ Timeout

MeterSpec == MeterInit /\ [][MeterNext]_vars

(* ---- the scheduler on songs with pitches that have no key ---- *)

ScanNext ==
  \/ \E idx \in ScanIds : StartSong(idx)
  \/ \E gap \in Gaps : Poll(gap)
  \/ StopSong
  \/ \E d \in IdleSteps : Idle(d)

ScanSpec == Init /\ [][ScanNext]_vars

(* ---- Visual Sync Loop ---- *)

\* 0.15 s, in ticks
VisualWindow == 6

InVisualWindowNoEnd(songTime, noteT) == songTime >= noteT

\* songTime >= noteT && songTime < noteT + 0.15
InVisualWindow(songTime, noteT) ==
  songTime >= noteT /\ songTime < noteT + VisualWindow

\* the least element of a non-empty set of naturals
Least(S) == CHOOSE i \in S : \A j \in S : i <= j

\* visualTick: the midi of the first note of song that find matches at clock
\* reading ctxNow, or null
visualTick(song, start, ctxNow) ==
  LET songTime == ctxNow - start
      hits == {i \in 0 .. Len(song.notes) - 1 :
                 InVisualWindow(songTime, NoteOffset(song, NoteAt(song, i)))}
  IN IF hits = {} THEN Null ELSE NoteAt(song, Least(hits)).midi

VisualTickRestamps ==
  /\ page = "kalimba"
  /\ thrown # "effect"
  /\ songIndex # Null /\ isPlaying
  /\ ctx # "null"
  /\ activeMidi' = visualTick(SongAt(songIndex), startTime, now)
  /\ startTime' = now
  /\ event' = "visualTick"
  /\ prior' = NoPrior
  /\ UNCHANGED <<now, ctx, songIndex, isPlaying, nextNoteIndex, timerSong,
                 session, prevPoll, maxGap, log, batch, made, thrown, offPage, intervals>>

\* the requestAnimationFrame callback of the Visual Sync effect runs, at the
\* clock reading of the last step
VisualTick ==
  /\ page = "kalimba"
  /\ thrown # "effect"
  /\ songIndex # Null /\ isPlaying
  /\ ctx # "null"
  /\ activeMidi' = visualTick(SongAt(songIndex), startTime, now)
  /\ event' = "visualTick"
  /\ prior' = NoPrior
  /\ UNCHANGED <<now, ctx, songIndex, isPlaying, nextNoteIndex, startTime, timerSong,
                 session, prevPoll, maxGap, log, batch, made, thrown, offPage, intervals>>

\* a scheduler poll no later than Horizon
ShortPoll(gap) == Poll(gap) /\ now' <= Horizon

VisualNext ==
  \/ \E idx \in SongIds : StartSong(idx)
  \/ \E gap \in Gaps : ShortPoll(gap)
  \/ StopSong
  \/ \E d \in IdleSteps : Idle(d)
  \/ VisualTick

VisualSpec == Init /\ [][VisualNext]_vars

(* ---- both pages, on a browser with or without AudioContext ---- *)

PlayKeyLater == PlayCall(Fin(250), Fin(8), "kalimba", Fin(6))

\* handlePlayKey(freq, factor): audio.ensureInit(); audio.play(freq, factor)
PlayKey == PlayCall(Fin(250), Fin(8), "kalimba", Fin(0))

PageNext ==
  \/ \E idx \in SongIds : StartSong(idx)
  \/ \E gap \in Gaps : ShortPoll(gap)
  \/ StopSong
  \/ \E d \in IdleSteps : Idle(d)
  \/ PlayKey
  \/ \E s \in Bowed, velocity \in Velocities, fingerPos \in FingerPositions :
        Bow(s, velocity, fingerPos)
  \/ StopAll
  \/ Timeout

PageSpec == EngineInit /\ [][PageNext]_vars

(* ---- what the claims speak about ---- *)

\* the clock cap never keeps the timer of a session from firing
CapNeverBinds ==
  timerSong # Null => \A gap \in Gaps : now + gap <= MaxClock

HasSession == session.song # Null

\* the song of the latest session
Sess == SongAt(session.song)

NumNotes == Len(Sess.notes)

\* target time of note i of the session: S + note.t * song.speed
Target(i) == session.S + NoteOffset(Sess, NoteAt(Sess, i))

BatchIdx == 1 .. Len(batch)

\* this state was produced by a run of scheduler()
AfterPoll == event \in {"start", "poll", "finish"}

(* C1: every note the scheduler hands to the synthesis engine is handed over
   with start-time argument exactly S + n.t * song.speed, whichever poll
   hands it over and however late that poll ran. *)
C1_WhenIsTarget ==
  \A k \in BatchIdx : batch[k].voice.when = Target(batch[k].i)

\* a poll that ran after the target time of a note it hands over
C1_Witness ==
  /\ event = "poll"
  /\ \E k \in BatchIdx : batch[k].at > Target(batch[k].i)

(* C2, as stated: every voice begins sounding at S + note.t * song.speed to
   within the scheduler resolution (one poll period), for every schedule of
   poll times. *)
C2_Original ==
  \A k \in BatchIdx :
    /\ batch[k].voice.t - Target(batch[k].i) <= PollPeriod
    /\ Target(batch[k].i) - batch[k].voice.t <= PollPeriod

(* C2, amended: no voice begins before S + note.t * song.speed, and a voice
   begins late by at most the amount by which the longest gap between two
   consecutive polls of the session exceeds the look-ahead window. *)
C2_LateByStallOnly ==
  \A k \in BatchIdx :
    /\ batch[k].voice.t >= Target(batch[k].i)
    /\ batch[k].voice.t - Target(batch[k].i) <= Max(0, maxGap - scheduleWindow)

\* a stalled poll made a voice begin late
C2_Witness ==
  /\ maxGap > scheduleWindow
  /\ \E k \in BatchIdx : batch[k].voice.t > Target(batch[k].i)

(* C3: if no gap between two consecutive polls exceeds the look-ahead window,
   every note is handed off at or before its target time, and the start time
   play uses for its voice is the target time, never the hand-off time. *)
C3_OnTimeWithinWindow ==
  maxGap <= scheduleWindow =>
    \A k \in BatchIdx :
      /\ batch[k].at <= Target(batch[k].i)
      /\ batch[k].voice.t = Target(batch[k].i)

\* after a stall of exactly one window a note is handed off at its target time
C3_Witness ==
  /\ event = "poll"
  /\ maxGap = scheduleWindow
  /\ \E k \in BatchIdx : batch[k].at = Target(batch[k].i)

(* C4: within one session the scan pointer never decreases and stays within
   0..notes.length, and a note already handed to the synthesis engine is
   never handed over again by a later poll of that session. *)
C4_PointerInRange ==
  /\ nextNoteIndex >= 0
  /\ HasSession => nextNoteIndex <= NumNotes
  /\ \A j, k \in 1 .. Len(log) : j # k => log[j] # log[k]

C4_MonotonePointer ==
  /\ []C4_PointerInRange
  /\ [][session' = session => nextNoteIndex' >= nextNoteIndex]_vars

\* a later poll of a session hands over further notes
C4_Witness ==
  /\ event = "poll"
  /\ batch # <<>>
  /\ Len(log) > Len(batch)

(* C5: notes are handed to the synthesis engine in non-decreasing t order,
   and when the session finishes normally each note of the song has been
   handed over exactly once. *)
C5_OrderedExactlyOnce ==
  /\ \A k \in 1 .. Len(log) - 1 :
       NoteAt(Sess, log[k]).t2 <= NoteAt(Sess, log[k + 1]).t2
  /\ event = "finish" =>
       /\ Len(log) = NumNotes
       /\ \A i \in 0 .. NumNotes - 1 :
            Cardinality({k \in 1 .. Len(log) : log[k] = i}) = 1

\* the longest song has finished normally
C5_Witness == event = "finish" /\ session.song = 0

(* C6, as stated: with polls one poll period apart, a note with target time
   T has been handed off by the poll whose currentTime >= T - window,
   equality included, and never later than one window past T. *)
C6_Original ==
  (HasSession /\ AfterPoll /\ maxGap <= PollPeriod) =>
    /\ \A i \in 0 .. NumNotes - 1 :
         now >= Target(i) - scheduleWindow => i < nextNoteIndex
    /\ \A k \in BatchIdx : batch[k].at <= Target(batch[k].i) + scheduleWindow

(* C6, amended: a note with target time T is handed off by the first poll
   whose currentTime > T - window (a poll whose currentTime equals T - window
   exactly leaves it unscheduled), and never later than one window past T
   when no gap between polls exceeds two windows. *)
C6_StrictWindow ==
  (HasSession /\ AfterPoll) =>
    /\ \A i \in 0 .. NumNotes - 1 :
         i < nextNoteIndex <=> now > Target(i) - scheduleWindow
    /\ \A k \in BatchIdx : batch[k].at > Target(batch[k].i) - scheduleWindow
    /\ maxGap <= 2 * scheduleWindow =>
         \A k \in BatchIdx : batch[k].at <= Target(batch[k].i) + scheduleWindow

\* a poll whose currentTime is exactly T - window leaves the note unscheduled
C6_Witness ==
  /\ event = "poll"
  /\ nextNoteIndex < NumNotes
  /\ now = Target(nextNoteIndex) - scheduleWindow

(* C7: starting song index 0 when the audio clock reads t0, the first note is
   scheduled at t0 + 0.1 and the last note no earlier than
   t0 + 0.1 + lastNote.t * song.speed. *)
C7_FirstAndLastNote ==
  session.song = 0 =>
    /\ event = "start" => (batch # <<>> /\ batch[1].i = 0)
    /\ \A k \in BatchIdx :
         /\ batch[k].i = 0 =>
              /\ batch[k].voice.when = session.t0 + StartOffset
              /\ batch[k].voice.t = session.t0 + StartOffset
         /\ batch[k].i = NumNotes - 1 =>
              /\ batch[k].voice.when >= session.t0 + StartOffset + NoteOffset(Sess, NoteAt(Sess, NumNotes - 1))
              /\ batch[k].voice.t >= session.t0 + StartOffset + NoteOffset(Sess, NoteAt(Sess, NumNotes - 1))

\* the last note of song 0 has been scheduled
C7_Witness ==
  /\ session.song = 0
  /\ \E k \in BatchIdx : batch[k].i = NumNotes - 1

(* C8: the scheduler resets playback to idle only in a poll in which the scan
   pointer has reached the end of the notes and the audio clock has passed
   the last note's target time by the 2.0 s grace margin. *)
C8_ResetOnlyAtEnd ==
  [][(isPlaying /\ ~isPlaying') =>
       \/ event' = "stop"
       \/ /\ nextNoteIndex' = NumNotes
          /\ now' > Target(NumNotes - 1) + Grace
          /\ songIndex' = Null]_vars

\* a poll has reset the playback state of the shortest song
C8_Witness == event = "finish" /\ session.song = 1 /\ ~isPlaying /\ songIndex = Null

(* C9: with a fair poll timer, every started session eventually returns to
   the idle playback state, and unless the user stopped it all its notes
   have been handed off by then. *)
C9_EventuallyIdle ==
  isPlaying ~> (~isPlaying /\ (event = "finish" => Len(log) = NumNotes))

\* a session ran to its end with every note handed off
C9_Witness == event = "finish" /\ session.song = 2 /\ Len(log) = NumNotes

(* C10: all notes of a song that share the same t are handed to the
   synthesis engine within the same poll. *)
C10_ChordInOnePoll ==
  \A k \in BatchIdx :
    \A i \in 0 .. NumNotes - 1 :
      NoteAt(Sess, i).t2 = NoteAt(Sess, batch[k].i).t2 =>
        \E j \in BatchIdx : batch[j].i = i

\* a later poll hands over a chord of three or more notes
C10_Witness ==
  /\ event = "poll"
  /\ \E k \in BatchIdx :
       Cardinality({j \in BatchIdx : NoteAt(Sess, batch[j].i).t2 = NoteAt(Sess, batch[k].i).t2}) >= 3

(* C11: a play call whose frequency or velocity is not finite builds no audio
   node, raises no exception and leaves the engine as it was: in particular
   it creates no audio context. *)
C11_NonFiniteIgnored ==
  [][(event' = "play" /\ (~IsFinite(call'.freq) \/ ~IsFinite(call'.factor))) =>
       /\ call'.nodes = 0
       /\ ~call'.thrown
       /\ call'.voice = NoVoice
       /\ ctx' = ctx
       /\ made' = made
       /\ thrown' = thrown]_vars

\* play was called with a NaN or infinite frequency on a browser that could
\* have created the context, and there is still none
C11_Witness ==
  /\ event = "play"
  /\ ~IsFinite(call.freq)
  /\ audioCtor
  /\ ctx = "null"
  /\ made.ctx = 0

(* C12: a play call whose frequency and velocity are finite and whose start
   time is not finite builds no voice and raises no exception. *)
C12_Original ==
  (event = "play" /\ PlayGuard(call.freq, call.factor) /\ ~IsFinite(call.when)) =>
    /\ call.nodes = 0
    /\ call.voice = NoVoice
    /\ ~call.thrown

(* C13: on a browser without an AudioContext constructor, starting a song,
   polling the scheduler, playing a key and bowing a string raise no
   exception. *)
C13_Original ==
  ~audioCtor => (thrown = "no" /\ ~violin.thrown)

(* C14: a stopAll that directly follows a stopAll changes no field of any
   string, sets no teardown timer and touches no audio node. *)
C14_SecondStopNoOp ==
  [][event' = "stopAllAgain" =>
       /\ violin'.strings = violin.strings
       /\ violin'.timers = violin.timers
       /\ violin'.voices = violin.voices]_vars

\* the strings were stopped twice in a row after a voice had been bowed, and
\* the teardown of the first stop is still pending
C14_Witness ==
  /\ event = "stopAllAgain"
  /\ violin.timers # <<>>
  /\ \E i \in 1 .. Len(violin.voices) : violin.voices[i].released

\* the voices of string s that have not been released
LiveVoices(s) ==
  {i \in 1 .. Len(violin.voices) :
     violin.voices[i].string = s /\ ~violin.voices[i].released}

(* C15: bowing a string that has a sounding voice creates no oscillator and
   sets that voice's pitch, amplitude and filter targets from the new finger
   position and velocity; every string has at most one voice that is not
   released. *)
C15_LegatoOneVoice ==
  /\ [](\A s \in StringSet : Cardinality(LiveVoices(s)) <= 1)
  /\ [][event' = "bowLegato" =>
          LET s == violin'.last.string
              id == violin.strings[s].osc
          IN /\ Len(violin'.voices) = Len(violin.voices)
             /\ violin'.strings[s] = violin.strings[s]
             /\ violin'.voices[id].freq = TargetFreq(s, violin'.last.fingerPos)
             /\ violin'.voices[id].vol = TargetVol(violin'.last.velocity)
             /\ violin'.voices[id].cutoff = Cutoff(violin'.last.velocity)]_vars

\* a sounding string was bowed again at another finger position, after
\* another string had been played and stopped
C15_Witness ==
  /\ event = "bowLegato"
  /\ Len(violin.voices) >= 2
  /\ LET s == violin.last.string
     IN /\ violin.last.fingerPos = 25
        /\ violin.voices[violin.strings[s].osc].freq = TargetFreq(s, 25)
        /\ Cardinality(LiveVoices(s)) = 1

(* C16: each engine has created at most one audio context, one master gain
   and one reverb node, and the violin at most one set of four strings; they
   exist exactly when the context does. *)
C16_InitOnce ==
  /\ made.ctx <= 1 /\ made.masterGain <= 1 /\ made.reverb <= 1
  /\ (ctx = "null") = (made.ctx = 0)
  /\ made.masterGain = made.ctx /\ made.reverb = made.ctx
  /\ violin.made.ctx <= 1 /\ violin.made.masterGain <= 1 /\ violin.made.reverb <= 1
  /\ (violin.ctx = "null") = (violin.made.ctx = 0)
  /\ violin.made.strings = Len(StringNames) * violin.made.ctx

\* ensureInit was called on an existing, suspended context and resumed it
C16_Witness ==
  /\ event = "ensureInitResume"
  /\ ctx = "running"
  /\ made.ctx = 1

(* C17: after a stop request nothing is playing and no interval is left, the
   stopped session hands no further note to the synthesis engine, and the
   notes handed over before the stop stay handed over. *)
C17_StopIsFinal ==
  /\ [](event = "stop" => (~isPlaying /\ songIndex = Null /\ timerSong = Null))
  /\ [][event' = "stop" => (log' = log /\ batch' = batch)]_vars
  /\ [][(~isPlaying /\ session' = session) => log' = log]_vars

\* a session was stopped with part of its notes handed over, and the clock
\* has run on since
C17_Witness ==
  /\ event = "idle"
  /\ HasSession
  /\ ~isPlaying
  /\ 0 < Len(log)
  /\ Len(log) < NumNotes

(* C18: a start of playback scans the song from note 0 with start time
   S = audio-clock time + 0.1, whatever pointer and start time the previous
   session left behind. *)
C18_FreshSession ==
  prior.how # "none" =>
    /\ startTime = now + StartOffset
    /\ session.S = startTime
    /\ batch # <<>>
    /\ batch[1].i = 0
    /\ nextNoteIndex = Len(batch)
    /\ log = Indices(batch)

\* a song is started after a session that ran to its end, which left the
\* pointer at the end of its song and another start time
C18_Witness ==
  /\ prior.how = "finished"
  /\ prior.idx > Len(batch)
  /\ prior.S # startTime

\* the notes of the session whose target time is inside the look-ahead
\* window of a scheduler run at the present clock reading
Due == {i \in 0 .. NumNotes - 1 : Target(i) < now + scheduleWindow}

(* C19: a visual tick changes neither the scan pointer nor the start time
   nor anything else of the session, and while a session plays the notes
   handed over are those due at the last poll, whatever activeMidi is and
   however many visual ticks ran in between. *)
C19_TickLeavesSchedule ==
  /\ [][event' = "visualTick" =>
          UNCHANGED <<nextNoteIndex, startTime, timerSong, songIndex, isPlaying,
                      session, log, batch, now, ctx>>]_vars
  /\ [](timerSong # Null =>
          /\ nextNoteIndex = Cardinality(Due)
          /\ log = [k \in 1 .. nextNoteIndex |-> k - 1])

\* a poll hands notes over while a key is lit by an earlier visual tick
C19_Witness ==
  /\ event = "poll"
  /\ activeMidi # Null
  /\ batch # <<>>

\* the notes of the session with songTime in [note.t * speed, note.t * speed + 0.15)
Lit == {i \in 0 .. NumNotes - 1 : Target(i) <= now /\ now < Target(i) + VisualWindow}

(* C20: after a visual tick the active pitch is the pitch of a note whose
   target time is at most 0.15 s behind the audio clock, and it is none
   exactly when there is no such note. *)
C20_ActiveNoteInWindow ==
  event = "visualTick" =>
    /\ (activeMidi = Null) = (Lit = {})
    /\ Lit # {} => \E i \in Lit : activeMidi = NoteAt(Sess, i).midi

\* a visual tick lights the key of a note other than the first
C20_Witness ==
  /\ event = "visualTick"
  /\ activeMidi # Null
  /\ Lit # {}
  /\ 0 \notin Lit

\* a play call built a voice
Built == event = "play" /\ call.voice # NoVoice

\* the oscillators of the voice of the last play call
Oscs == {call.voice.oscs[k] : k \in 1 .. Len(call.voice.oscs)}

(* C22: every oscillator of a voice built by play is stopped at
   start + max(1.0, 500/freq) + 0.1 (kalimba) or start + 3.0 (piano),
   strictly after its start. *)
C22_Original ==
  Built =>
    \A o \in Oscs :
      /\ o.start < o.stop
      /\ call.voice.instrument = "kalimba" =>
           o.stop = o.start + Max(1000, 500000 \div call.voice.freq) + 100
      /\ call.voice.instrument = "piano" => o.stop = o.start + 3000

(* C22, amended: every oscillator of a voice built by play has its stop
   set when the voice is built, strictly after its start at the voice's
   start time: the kalimba carrier and modulator at
   start + max(1.0, 500/freq) + 0.1, the kalimba thump at start + 0.06, the
   two piano oscillators at start + 3.0. *)
C22_StopAfterStart ==
  Built =>
    /\ Oscs # {}
    /\ \A o \in Oscs :
         /\ o.start = TickMs * call.voice.t
         /\ o.start < o.stop
         /\ o.name \in {"carrier", "modulator"} =>
              o.stop = o.start + Max(1000, 500000 \div call.voice.freq) + 100
         /\ o.name = "thump" => o.stop = o.start + 60
         /\ o.name \in {"osc1", "osc2"} => o.stop = o.start + 3000
    /\ call.voice.instrument = "kalimba" =>
         {o.name : o \in Oscs} = {"carrier", "modulator", "thump"}
    /\ call.voice.instrument = "piano" => {o.name : o \in Oscs} = {"osc1", "osc2"}

\* a kalimba voice of a high note, whose decay time is the 1.0 s floor, was
\* built for a start time still to come
C22_Witness ==
  /\ Built
  /\ call.voice.instrument = "kalimba"
  /\ 500000 \div call.voice.freq < 1000
  /\ call.voice.t > now

\* the strings that hold a voice
Held == {s \in StringSet : violin.strings[s].osc # Null \/ violin.strings[s].gain # Null}

(* C23: at most one of the four violin strings holds a voice, and after a
   bow it is the bowed string. *)
C23_OneStringSounds ==
  /\ Cardinality(Held) <= 1
  /\ event \in {"bow", "bowLegato"} => Held = {violin.last.string}

\* a string was bowed while another one was sounding: that one was released
\* and its teardown is pending
C23_Witness ==
  /\ event = "bow"
  /\ Held = {violin.last.string}
  /\ violin.timers # <<>>
  /\ \E i \in 1 .. Len(violin.voices) :
       /\ violin.voices[i].string # violin.last.string
       /\ violin.voices[i].released
       /\ ~violin.voices[i].stopped

(* C24: the teardown timer of a stop stops and disconnects only the voice
   that stop released; the string's fields and every voice that is not
   released, one played on the same string since included, are as they were
   before it fired. *)
C24_TeardownOwnVoice ==
  /\ [](\A i \in 1 .. Len(violin.voices) :
          (violin.voices[i].stopped \/ violin.voices[i].disconnected) =>
             violin.voices[i].released)
  /\ [][event' = "timeout" =>
          /\ violin'.strings = violin.strings
          /\ Len(violin'.voices) = Len(violin.voices)
          /\ \A i \in 1 .. Len(violin.voices) :
               IF i = Head(violin.timers).osc
               THEN violin'.voices[i].stopped /\ violin'.voices[i].disconnected
               ELSE violin'.voices[i] = violin.voices[i]]_vars

\* the teardown of a string's old voice fired while a newer voice of the
\* same string is sounding
C24_Witness ==
  /\ event = "timeout"
  /\ \E s \in StringSet :
       /\ Sounding(violin.strings[s])
       /\ ~violin.voices[violin.strings[s].osc].stopped
       /\ \E i \in 1 .. Len(violin.voices) :
            /\ violin.voices[i].string = s
            /\ violin.voices[i].stopped
            /\ i < violin.strings[s].osc

(* C25: at most one scheduler interval is active, it is the one of the
   latest session, and the notes a poll hands over are notes of that
   session's song: after a switch only notes of the new song. *)
C25_OneTimer ==
  /\ intervals <= 1
  /\ (intervals = 1) = (timerSong # Null)
  /\ timerSong # Null => (timerSong = session.song /\ songIndex = timerSong /\ isPlaying)
  /\ \A k \in BatchIdx :
       /\ batch[k].voice.midi = NoteAt(Sess, batch[k].i).midi
       /\ batch[k].voice.instrument = Instrument(Sess)

\* another song was started while one was playing part-way through, and the
\* first notes of the new song were handed over
C25_Witness ==
  /\ prior.how = "replaced"
  /\ prior.idx > Len(batch)
  /\ batch # <<>>
  /\ intervals = 1

(* C26: a start request for the song that is playing leaves the scan
   pointer, the start time, the session and the notes handed over as they
   are: a step without a poll during which the same song keeps playing hands
   over nothing. *)
C26_SameSongNoRestart ==
  [][(isPlaying /\ isPlaying' /\ songIndex' = songIndex /\ now' = now) =>
       UNCHANGED <<nextNoteIndex, startTime, session, log, batch, timerSong,
                   intervals>>]_vars

\* the playing song was requested again after polls had moved the pointer on
C26_Witness ==
  /\ event = "startSame"
  /\ isPlaying
  /\ now > session.t0
  /\ nextNoteIndex > 0
  /\ Len(log) > Len(batch)

(* C28: a key press during playback builds one voice at the present clock
   reading and changes nothing of the session: pointer, start time,
   songIndex, isPlaying and the notes handed over stay, and the notes
   handed over remain exactly those due at the last poll. *)
C28_KeyPressLeavesSession ==
  /\ [][(event' = "play" /\ isPlaying) =>
          /\ call'.voice.t = now
          /\ call'.nodes > 0
          /\ UNCHANGED <<now, nextNoteIndex, startTime, songIndex, isPlaying, timerSong,
                         session, log, batch, activeMidi, intervals>>]_vars
  /\ [](timerSong # Null =>
          /\ Cardinality(Due) = nextNoteIndex
          /\ Len(log) = nextNoteIndex)

\* a key was pressed while a song was part-way through
C28_Witness ==
  /\ event = "play"
  /\ isPlaying
  /\ call.voice # NoVoice
  /\ now > session.t0
  /\ 0 < nextNoteIndex
  /\ nextNoteIndex < NumNotes

\* the notes of the session that the scan has passed, in order
Passed == [k \in 1 .. nextNoteIndex |-> k - 1]

(* C27: a note whose pitch has no kalimba key is never handed to the
   synthesis engine, and the scan pointer passes it like any other note:
   while the interval runs the pointer stands behind the last note due, the
   notes handed over are the passed notes that have a key, and at the
   finish the pointer is at the end of the song. *)
C27_SkipsUnmatched ==
  HasSession =>
    /\ \A k \in 1 .. Len(log) : NoteAt(Sess, log[k]).midi \in whiteKeysMidi
    /\ log = SelectSeq(Passed, LAMBDA i : NoteAt(Sess, i).midi \in whiteKeysMidi)
    /\ timerSong # Null => nextNoteIndex = Cardinality(Due)
    /\ event = "finish" => nextNoteIndex = NumNotes

\* a song whose last note has no key ran to its finish; only some of its
\* notes were handed over
C27_Witness ==
  /\ event = "finish"
  /\ NoteAt(Sess, NumNotes - 1).midi \notin whiteKeysMidi
  /\ nextNoteIndex = NumNotes
  /\ 0 < Len(log)
  /\ Len(log) < NumNotes

(* C30: setCompleted(true) is called only by a frame that runs while
   assembling and computes a stage counter above maxStage + 1, at most once
   since assembly was switched on; setCompleted(false) is called by the
   first frame after assembly is switched off, so completion never outlives
   that frame. *)
C30_CompletionSignal ==
  /\ tower.frame = "signal" => (tower.assemble \/ event = "towerToggle")
  /\ tower.frame = "signal" => tower.next > maxStage + StageUnit
  /\ tower.signals <= 1
  /\ tower.frame = "withdraw" => (tower.offFrames = 1 \/ event = "towerToggle")
  /\ (~tower.assemble /\ tower.offFrames >= 1) => ~tower.completed
  /\ tower.completed = tower.isCompletedRef

\* the first frame after a completed tower was switched to disassembly
\* withdrew the completion
C30_Witness ==
  /\ event = "towerFrame"
  /\ tower.frame = "withdraw"
  /\ ~tower.assemble
  /\ tower.offFrames = 1
  /\ tower.signals = 1
  /\ ~tower.completed

(* C21: the tower progress handed to onProgress and the width of the violin
   bow-velocity meter are within 0 .. 100. *)
C21_Original ==
  /\ tower.progress \in 0 .. 100
  /\ MeterWidth(violin.bowVelocity) \in 0 .. 100

(* C29: whenever the drone is not assembled the flight mode is 'idle'. *)
C29_Original ==
  ~drone.assemble => drone.flightMode = "idle"

====
